---------------------------- MODULE Spec2Model ----------------------------
(***************************************************************************)
(* A model of the two C utility libraries of the repository:               *)
(*   mathlib  ("Library A", c-library-binding/c-lib/mathlib.c)             *)
(*   task_ops ("Library B", capstone-project/c-lib/task_ops.c)             *)
(*                                                                         *)
(* Bytes are their ASCII codes (0 is the terminator '\0').  A C array is a *)
(* TLA+ sequence: the C index i is the sequence index i + 1.  A pointer    *)
(* argument is a pair  xNull (is it NULL?) and x (the memory it points to).*)
(* 64-bit integers whose width matters (factorial, gcd) are four 16-bit    *)
(* limbs, least significant first, in two's complement.                    *)
(***************************************************************************)
EXTENDS Integers, Sequences, FiniteSets, TLC

VARIABLES
    last_error,   \* mathlib.c: static char last_error[256]
    pc,           \* "call": req is about to be executed; "ret": it has returned
    req,          \* the call in hand: the function's name and its arguments
    res,          \* what the call returned and wrote
    ncalls,       \* number of calls issued so far by the sequential caller
    lastFailure,  \* history: message recorded by the most recent failing call
    rpc,          \* racing callers: where each one is inside set_error
    rmsg,         \* racing callers: the message each one passes to set_error
    ri,           \* racing callers: strncpy's index into last_error
    overlapped,   \* history: two set_error calls have been in progress at once
    observed      \* racing callers: the text a later get_last_error read

seqVars  == <<pc, req, res, ncalls, lastFailure>>
raceVars == <<rpc, rmsg, ri, overlapped, observed>>
vars     == <<last_error, pc, req, res, ncalls, lastFailure,
              rpc, rmsg, ri, overlapped, observed>>

(***************************************************************************)
(* Bounds of the model.                                                    *)
(***************************************************************************)
MaxStrLen == 3    \* longest input string (bytes before the final terminator)
MaxArrLen == 3    \* longest array
MaxFactN  == 22   \* largest argument of factorial / fast_factorial
MaxGcdArg == 6    \* fast_gcd arguments: -MaxGcdArg..MaxGcdArg and the extremes
MaxCalls  == 3    \* length of a sequence of calls
MaxSpanLen == 2   \* longest byte span of the memory operations

(***************************************************************************)
(* C strings and byte buffers.                                             *)
(***************************************************************************)
\* Letters used in test strings: 'a', 'z', 'B', '{' (the byte after 'z').
Alphabet == {97, 122, 66, 123}

RECURSIVE strlen_from(_, _)
strlen_from(s, i) ==
    IF i + 1 > Len(s) THEN i
    ELSE IF s[i + 1] = 0 THEN i ELSE strlen_from(s, i + 1)

\* strlen(s): the number of bytes before the first terminator.
strlen(s) == strlen_from(s, 0)

\* The text a reader of the C string at buf sees.
CStr(buf) == SubSeq(buf, 1, strlen(buf))

\* toupper() in the "C" locale on an unsigned char.
toupper(c) == IF c >= 97 /\ c <= 122 THEN c - 32 ELSE c

\* A caller's buffer, with the history of which C indexes were written.
Buffer(mem) == [mem |-> mem, written |-> {}]
Store(b, i, v) ==
    [mem     |-> IF i + 1 \in DOMAIN b.mem THEN [b.mem EXCEPT ![i + 1] = v] ELSE b.mem,
     written |-> b.written \cup {i}]

(***************************************************************************)
(* mathlib.c: the last-error slot.                                         *)
(***************************************************************************)
ErrBufSize == 256

\* strncpy(dest, src, n): the first n bytes of dest become src's text, padded
\* with terminators; src is the text without its terminator.
strncpy(dest, src, n) ==
    [i \in 1..Len(dest) |->
        IF i <= n THEN (IF i <= Len(src) THEN src[i] ELSE 0) ELSE dest[i]]

\* A slip: keep the first message instead of overwriting it.
set_error_first_wins(buf, message) ==
    IF buf[1] # 0 THEN buf
    ELSE [strncpy(buf, message, ErrBufSize - 1) EXCEPT ![ErrBufSize] = 0]

set_error(buf, message) ==
    [strncpy(buf, message, ErrBufSize - 1) EXCEPT ![ErrBufSize] = 0]

MsgFactorialTooLarge ==    \* "Factorial input too large (max 20)"
    <<70, 97, 99, 116, 111, 114, 105, 97, 108, 32, 105, 110, 112, 117, 116, 32,
      116, 111, 111, 32, 108, 97, 114, 103, 101, 32, 40, 109, 97, 120, 32, 50,
      48, 41>>
MsgReverseNull ==          \* "Null pointer passed to reverse_string"
    <<78, 117, 108, 108, 32, 112, 111, 105, 110, 116, 101, 114, 32, 112, 97,
      115, 115, 101, 100, 32, 116, 111, 32, 114, 101, 118, 101, 114, 115, 101,
      95, 115, 116, 114, 105, 110, 103>>
MsgReverseSmall ==         \* "Output buffer too small for reverse_string"
    <<79, 117, 116, 112, 117, 116, 32, 98, 117, 102, 102, 101, 114, 32, 116,
      111, 111, 32, 115, 109, 97, 108, 108, 32, 102, 111, 114, 32, 114, 101,
      118, 101, 114, 115, 101, 95, 115, 116, 114, 105, 110, 103>>
MsgUppercaseNull ==        \* "Null pointer passed to uppercase_string"
    <<78, 117, 108, 108, 32, 112, 111, 105, 110, 116, 101, 114, 32, 112, 97,
      115, 115, 101, 100, 32, 116, 111, 32, 117, 112, 112, 101, 114, 99, 97,
      115, 101, 95, 115, 116, 114, 105, 110, 103>>
MsgUppercaseSmall ==       \* "Output buffer too small for uppercase_string"
    <<79, 117, 116, 112, 117, 116, 32, 98, 117, 102, 102, 101, 114, 32, 116,
      111, 111, 32, 115, 109, 97, 108, 108, 32, 102, 111, 114, 32, 117, 112,
      112, 101, 114, 99, 97, 115, 101, 95, 115, 116, 114, 105, 110, 103>>
MsgLengthNull ==           \* "Null pointer passed to string_length"
    <<78, 117, 108, 108, 32, 112, 111, 105, 110, 116, 101, 114, 32, 112, 97,
      115, 115, 101, 100, 32, 116, 111, 32, 115, 116, 114, 105, 110, 103, 95,
      108, 101, 110, 103, 116, 104>>
MsgSumNull ==              \* "Null pointer passed to sum_array"
    <<78, 117, 108, 108, 32, 112, 111, 105, 110, 116, 101, 114, 32, 112, 97,
      115, 115, 101, 100, 32, 116, 111, 32, 115, 117, 109, 95, 97, 114, 114,
      97, 121>>
MsgMaxNull ==              \* "Null pointer passed to find_max"
    <<78, 117, 108, 108, 32, 112, 111, 105, 110, 116, 101, 114, 32, 112, 97,
      115, 115, 101, 100, 32, 116, 111, 32, 102, 105, 110, 100, 95, 109, 97,
      120>>
MsgMaxEmpty ==             \* "Empty array passed to find_max"
    <<69, 109, 112, 116, 121, 32, 97, 114, 114, 97, 121, 32, 112, 97, 115, 115,
      101, 100, 32, 116, 111, 32, 102, 105, 110, 100, 95, 109, 97, 120>>

\* What a Library A call hands back besides its own results: the slot after the
\* call, and the message it passed to set_error (<<>> when it passed none).
Ok(err, r)         == [err |-> err, msg |-> <<>>] @@ r
Fail(err, m, r)    == [err |-> set_error(err, m), msg |-> m] @@ r


(***************************************************************************)
(* 64-bit integers: <<l0, l1, l2, l3>>, value l0 + l1*2^16 + l2*2^32 +     *)
(* l3*2^48, read as unsigned (uint64_t) or in two's complement (int64_t).  *)
(***************************************************************************)
LimbBase == 2^16
SignLimb == 2^15

Zero64     == <<0, 0, 0, 0>>
One64      == <<1, 0, 0, 0>>
MinusOne64 == <<LimbBase - 1, LimbBase - 1, LimbBase - 1, LimbBase - 1>>
INT64_MIN  == <<0, 0, 0, SignLimb>>
INT64_MAX  == <<LimbBase - 1, LimbBase - 1, LimbBase - 1, SignLimb - 1>>

\* The 64-bit pattern of n, 0 <= n < 2^31.
FromNat(n) == <<n % LimbBase, n \div LimbBase, 0, 0>>

IsNeg64(x) == x[4] >= SignLimb

\* x * k modulo 2^64, for a small multiplier 0 <= k < 2^15.
MulSmall(x, k) ==
    LET p1 == x[1] * k
        p2 == x[2] * k + (p1 \div LimbBase)
        p3 == x[3] * k + (p2 \div LimbBase)
        p4 == x[4] * k + (p3 \div LimbBase)
    IN  <<p1 % LimbBase, p2 % LimbBase, p3 % LimbBase, p4 % LimbBase>>

\* x + 1 modulo 2^64.
Inc64(x) ==
    LET s1 == x[1] + 1
        s2 == x[2] + (s1 \div LimbBase)
        s3 == x[3] + (s2 \div LimbBase)
        s4 == x[4] + (s3 \div LimbBase)
    IN  <<s1 % LimbBase, s2 % LimbBase, s3 % LimbBase, s4 % LimbBase>>

Not64(x) == [i \in 1..4 |-> LimbBase - 1 - x[i]]

\* -x in 64-bit two's complement: the pattern the machine's negation leaves,
\* which for INT64_MIN is INT64_MIN again.
Neg64(x) == Inc64(Not64(x))

\* The 64-bit pattern of a small signed v, -2^31 < v < 2^31.
FromInt(v) == IF v >= 0 THEN FromNat(v) ELSE Neg64(FromNat(0 - v))

\* Unsigned x < y.
ULess(x, y) ==
    \E i \in 1..4 : x[i] < y[i] /\ \A j \in (i + 1)..4 : x[j] = y[j]

\* Unsigned x - y, for x >= y.
USub(x, y) ==
    LET d1 == x[1] - y[1]
        b1 == IF d1 < 0 THEN 1 ELSE 0
        d2 == x[2] - y[2] - b1
        b2 == IF d2 < 0 THEN 1 ELSE 0
        d3 == x[3] - y[3] - b2
        b3 == IF d3 < 0 THEN 1 ELSE 0
        d4 == x[4] - y[4] - b3
    IN  <<d1 % LimbBase, d2 % LimbBase, d3 % LimbBase, d4 % LimbBase>>

\* Bit k (0 = least significant) of x.
Bit64(x, k) == (x[(k \div 16) + 1] \div (2^(k % 16))) % 2

\* 2*x + bit modulo 2^64.
Shl1(x, bit) ==
    LET s1 == 2 * x[1] + bit
        s2 == 2 * x[2] + (s1 \div LimbBase)
        s3 == 2 * x[3] + (s2 \div LimbBase)
        s4 == 2 * x[4] + (s3 \div LimbBase)
    IN  <<s1 % LimbBase, s2 % LimbBase, s3 % LimbBase, s4 % LimbBase>>

\* Unsigned x mod d (d # 0) by binary long division, bit k downwards.
RECURSIVE umod_from(_, _, _, _)
umod_from(x, d, k, r) ==
    IF k < 0 THEN r
    ELSE LET r2 == Shl1(r, Bit64(x, k))
         IN  IF ULess(r2, d)
             THEN umod_from(x, d, k - 1, r2)
             ELSE umod_from(x, d, k - 1, USub(r2, d))

UMod(x, d) == umod_from(x, d, 63, Zero64)

\* |x| as an unsigned 64-bit number (2^63 for INT64_MIN).
Magnitude(x) == IF IsNeg64(x) THEN Neg64(x) ELSE x

\* C's x % y on int64_t (y # 0): truncated division, the sign of the dividend.
Rem64(x, y) ==
    LET r == UMod(Magnitude(x), Magnitude(y))
    IN  IF IsNeg64(x) THEN Neg64(r) ELSE r

\* What a build may do when signed arithmetic overflows (undefined behaviour):
\* wrap around in two's complement, or trap (-ftrapv, a sanitizer, idiv).
OverflowOutcomes == {"wrap", "trap"}

(***************************************************************************)
(* mathlib.c: mathematical operations.  Arguments of add and multiply are  *)
(* drawn far from the int32_t limits, so the C sum and product are exact.  *)
(***************************************************************************)
add_numbers(err, a, b) == Ok(err, [ret |-> a + b])

multiply_numbers(err, a, b) == Ok(err, [ret |-> a * b])

\* for (i = 2; i <= n; i++) result *= i;   on uint64_t
RECURSIVE factorial_loop(_, _, _)
factorial_loop(result, i, n) ==
    IF i <= n THEN factorial_loop(MulSmall(result, i), i + 1, n) ELSE result

\* A slip: the bound one too high; 21! does not fit in 64 bits.
FactorialLimitTooHigh == 20 + 1

FactorialLimit == 20

factorial(err, n) ==
    IF n > FactorialLimit
    THEN Fail(err, MsgFactorialTooLarge, [ret |-> Zero64])
    ELSE Ok(err, [ret |-> factorial_loop(One64, 2, n)])

(***************************************************************************)
(* mathlib.c: string operations.  input is the memory at the input pointer *)
(* (terminated); output is the caller's buffer, of at least output_size    *)
(* bytes, distinct from the input.                                         *)
(***************************************************************************)
\* A slip: output[i] = input[len - i], one byte too far to the right.
RECURSIVE reverse_loop_off_by_one(_, _, _, _)
reverse_loop_off_by_one(input, out, len, i) ==
    IF i < len
    THEN reverse_loop_off_by_one(input, Store(out, i, input[(len - i) + 1]), len, i + 1)
    ELSE out

\* for (i = 0; i < len; i++) output[i] = input[len - 1 - i];
RECURSIVE reverse_loop(_, _, _, _)
reverse_loop(input, out, len, i) ==
    IF i < len
    THEN reverse_loop(input, Store(out, i, input[(len - 1 - i) + 1]), len, i + 1)
    ELSE out

\* A slip: the capacity check forgets the terminator (len > output_size).
reverse_string_tight(err, inputNull, input, outputNull, output, output_size) ==
    IF inputNull \/ outputNull
    THEN Fail(err, MsgReverseNull, [ret |-> -1, out |-> Buffer(output)])
    ELSE LET len == strlen(input)
         IN  IF len > output_size
             THEN Fail(err, MsgReverseSmall, [ret |-> -1, out |-> Buffer(output)])
             ELSE Ok(err, [ret |-> 0,
                           out |-> Store(reverse_loop(input, Buffer(output), len, 0),
                                         len, 0)])

reverse_string(err, inputNull, input, outputNull, output, output_size) ==
    IF inputNull \/ outputNull
    THEN Fail(err, MsgReverseNull, [ret |-> -1, out |-> Buffer(output)])
    ELSE LET len == strlen(input)
         IN  IF len + 1 > output_size
             THEN Fail(err, MsgReverseSmall, [ret |-> -1, out |-> Buffer(output)])
             ELSE Ok(err, [ret |-> 0,
                           out |-> Store(reverse_loop(input, Buffer(output), len, 0),
                                         len, 0)])

\* for (i = 0; i < len; i++) output[i] = toupper((unsigned char)input[i]);
RECURSIVE uppercase_loop(_, _, _, _)
uppercase_loop(input, out, len, i) ==
    IF i < len
    THEN uppercase_loop(input, Store(out, i, toupper(input[i + 1])), len, i + 1)
    ELSE out

uppercase_string(err, inputNull, input, outputNull, output, output_size) ==
    IF inputNull \/ outputNull
    THEN Fail(err, MsgUppercaseNull, [ret |-> -1, out |-> Buffer(output)])
    ELSE LET len == strlen(input)
         IN  IF len + 1 > output_size
             THEN Fail(err, MsgUppercaseSmall, [ret |-> -1, out |-> Buffer(output)])
             ELSE Ok(err, [ret |-> 0,
                           out |-> Store(uppercase_loop(input, Buffer(output), len, 0),
                                         len, 0)])

string_length(err, strNull, str) ==
    IF strNull
    THEN Fail(err, MsgLengthNull, [ret |-> 0])
    ELSE Ok(err, [ret |-> strlen(str)])

(***************************************************************************)
(* mathlib.c: array operations.  Elements are drawn from a small range, so *)
(* the running sum stays inside int32_t.                                   *)
(***************************************************************************)
\* for (i = 0; i < length; i++) sum += array[i];
RECURSIVE sum_loop(_, _, _, _)
sum_loop(array, length, i, sum) ==
    IF i < length THEN sum_loop(array, length, i + 1, sum + array[i + 1]) ELSE sum

sum_array(err, arrayNull, array, length) ==
    IF arrayNull
    THEN Fail(err, MsgSumNull, [ret |-> 0])
    ELSE Ok(err, [ret |-> sum_loop(array, length, 0, 0)])

\* A slip: the comparison reversed, which finds the minimum.
RECURSIVE max_loop_reversed(_, _, _, _)
max_loop_reversed(array, length, i, max) ==
    IF i < length
    THEN max_loop_reversed(array, length, i + 1,
                           IF array[i + 1] < max THEN array[i + 1] ELSE max)
    ELSE max

\* for (i = 1; i < length; i++) if (array[i] > max) max = array[i];
RECURSIVE max_loop(_, _, _, _)
max_loop(array, length, i, max) ==
    IF i < length
    THEN max_loop(array, length, i + 1, IF array[i + 1] > max THEN array[i + 1] ELSE max)
    ELSE max

\* max_value is the int32_t the out-parameter points to; written tells whether
\* the call stored to it.
find_max(err, arrayNull, array, length, maxNull, max_value) ==
    IF arrayNull \/ maxNull
    THEN Fail(err, MsgMaxNull, [ret |-> -1, max_value |-> max_value, written |-> FALSE])
    ELSE IF length = 0
         THEN Fail(err, MsgMaxEmpty,
                   [ret |-> -1, max_value |-> max_value, written |-> FALSE])
         ELSE Ok(err, [ret |-> 0,
                       max_value |-> max_loop(array, length, 1, array[1]),
                       written |-> TRUE])

\* The text a caller reads through the pointer get_last_error returns; the call
\* itself leaves the slot alone.
get_last_error(err) == Ok(err, [ret |-> CStr(err)])

(***************************************************************************)
(* task_ops.h / task_ops.c ("Library B").  Array elements are small        *)
(* integers, so sums and comparisons on int64_t are exact.                 *)
(***************************************************************************)
TASK_OPS_ERROR_NULL_POINTER == -1

\* for (i = 2; i <= n; i++) result *= i;   on int64_t
RECURSIVE fast_factorial_loop(_, _, _)
fast_factorial_loop(result, i, n) ==
    IF i <= n THEN fast_factorial_loop(MulSmall(result, i), i + 1, n) ELSE result

FastFactorialLimit == 20

fast_factorial(n) ==
    IF n < 0 \/ n > FastFactorialLimit
    THEN [ret |-> MinusOne64]
    ELSE [ret |-> fast_factorial_loop(One64, 2, n)]

\* while (b != 0) { temp = b; b = a % b; a = temp; }
\* INT64_MIN % -1 overflows like a negation does.
RECURSIVE gcd_loop(_, _, _)
gcd_loop(a, b, onOverflow) ==
    IF b = Zero64 THEN [returned |-> TRUE, ret |-> a]
    ELSE IF a = INT64_MIN /\ b = MinusOne64 /\ onOverflow = "trap"
         THEN [returned |-> FALSE, ret |-> Zero64]
         ELSE gcd_loop(b, Rem64(a, b), onOverflow)

\* if (a < 0) a = -a;  if (b < 0) b = -b;  then the loop.  -a overflows for
\* a = INT64_MIN: onOverflow says what the build does then.
fast_gcd(a, b, onOverflow) ==
    IF (a = INT64_MIN \/ b = INT64_MIN) /\ onOverflow = "trap"
    THEN [returned |-> FALSE, ret |-> Zero64]
    ELSE gcd_loop(IF IsNeg64(a) THEN Neg64(a) ELSE a,
                  IF IsNeg64(b) THEN Neg64(b) ELSE b, onOverflow)

\* for (i = 0; i < len; i++) sum += arr[i];
RECURSIVE fast_sum_loop(_, _, _, _)
fast_sum_loop(arr, len, i, sum) ==
    IF i < len THEN fast_sum_loop(arr, len, i + 1, sum + arr[i + 1]) ELSE sum

\* A variant: an empty array treated as an error, as fast_array_max does.
fast_array_sum_rejects_empty(arrNull, arr, len) ==
    IF arrNull \/ len = 0
    THEN [ret |-> TASK_OPS_ERROR_NULL_POINTER]
    ELSE [ret |-> fast_sum_loop(arr, len, 0, 0)]

fast_array_sum(arrNull, arr, len) ==
    IF arrNull
    THEN [ret |-> TASK_OPS_ERROR_NULL_POINTER]
    ELSE [ret |-> fast_sum_loop(arr, len, 0, 0)]

\* for (i = 1; i < len; i++) if (arr[i] > max) max = arr[i];
RECURSIVE fast_max_loop(_, _, _, _)
fast_max_loop(arr, len, i, max) ==
    IF i < len
    THEN fast_max_loop(arr, len, i + 1, IF arr[i + 1] > max THEN arr[i + 1] ELSE max)
    ELSE max

fast_array_max(arrNull, arr, len) ==
    IF arrNull \/ len = 0
    THEN [ret |-> TASK_OPS_ERROR_NULL_POINTER]
    ELSE [ret |-> fast_max_loop(arr, len, 1, arr[1])]

\* A slip: a swap without the temporary, arr[x] = arr[y]; arr[y] = arr[x].
Swap_without_temp(arr, x, y) == [arr EXCEPT ![x + 1] = arr[y + 1]]

\* temp = arr[x]; arr[x] = arr[y]; arr[y] = temp;   (C indexes)
Swap(arr, x, y) == [arr EXCEPT ![x + 1] = arr[y + 1], ![y + 1] = arr[x + 1]]

\* The partition loop of quicksort: st = [arr, i], pivot = arr[high].
\* for (j = low; j < high; j++) if (arr[j] <= pivot) { i++; swap(arr[i], arr[j]); }
RECURSIVE partition_loop(_, _, _, _)
partition_loop(st, pivot, j, high) ==
    IF j < high
    THEN partition_loop(
             IF st.arr[j + 1] <= pivot
             THEN [arr |-> Swap(st.arr, st.i + 1, j), i |-> st.i + 1]
             ELSE st,
             pivot, j + 1, high)
    ELSE st

\* quicksort(arr, low, high) on the state [arr, calls]: calls counts the
\* invocations of quicksort made so far, this one included.
RECURSIVE quicksort(_, _, _)
quicksort(st, low, high) ==
    IF low < high
    THEN LET p     == partition_loop([arr |-> st.arr, i |-> low - 1],
                                     st.arr[high + 1], low, high)
             pi    == p.i + 1
             left  == quicksort([arr |-> Swap(p.arr, p.i + 1, high),
                                 calls |-> st.calls + 1], low, pi - 1)
         IN  quicksort(left, pi + 1, high)
    ELSE [arr |-> st.arr, calls |-> st.calls + 1]

fast_array_sort(arrNull, arr, len) ==
    IF arrNull \/ len <= 1
    THEN [arr |-> arr, calls |-> 0]
    ELSE quicksort([arr |-> arr, calls |-> 0], 0, len - 1)

\* for (i = 0; i < len / 2; i++) swap str[i] and str[len - 1 - i]
RECURSIVE fast_reverse_loop(_, _, _)
fast_reverse_loop(b, len, i) ==
    IF i < len \div 2
    THEN LET temp == b.mem[i + 1]
             b1   == Store(b, i, b.mem[(len - 1 - i) + 1])
         IN  fast_reverse_loop(Store(b1, len - 1 - i, temp), len, i + 1)
    ELSE b

fast_string_reverse(strNull, str, len) ==
    IF strNull \/ len <= 1
    THEN [out |-> Buffer(str)]
    ELSE [out |-> fast_reverse_loop(Buffer(str), len, 0)]

\* memcmp(a, b, len): the standard fixes only the sign of the result.  Builds
\* return the difference of the first differing bytes ("difference") or
\* -1 / 0 / 1 ("sign").
MemcmpResults == {"difference", "sign"}

RECURSIVE memcmp_from(_, _, _, _, _)
memcmp_from(a, b, len, i, how) ==
    IF i >= len THEN 0
    ELSE IF a[i + 1] = b[i + 1] THEN memcmp_from(a, b, len, i + 1, how)
    ELSE IF how = "difference" THEN a[i + 1] - b[i + 1]
    ELSE IF a[i + 1] < b[i + 1] THEN -1 ELSE 1

memcmp(a, b, len, how) == memcmp_from(a, b, len, 0, how)

fast_memory_compare(aNull, a, bNull, b, len, how) ==
    IF aNull \/ bNull
    THEN [ret |-> TASK_OPS_ERROR_NULL_POINTER]
    ELSE [ret |-> memcmp(a, b, len, how)]

(***************************************************************************)
(* The calls a caller can make: every function with arguments from small   *)
(* sets.                                                                   *)
(***************************************************************************)
SmallInts == {-3, 0, 1, 4}
ArrVals   == {-1, 0, 2}

\* Terminated memory at a string pointer: MaxStrLen bytes, any of which may
\* already be a terminator, then the terminator.
Strings == {s \o <<0>> : s \in [1..MaxStrLen -> Alphabet \cup {0}]}

\* The caller's output buffer: OutCap bytes holding '?'.
OutCap  == MaxStrLen + 2
OutInit == [i \in 1..OutCap |-> 63]

Arrays == UNION {[1..k -> ArrVals] : k \in 0..MaxArrLen}

\* Pairs of byte spans of the same length for the memory operations.
SpanPairs ==
    UNION {[1..k -> {0, 97, 98}] \X [1..k -> {0, 97, 98}] : k \in 0..MaxSpanLen}

\* The fast_gcd arguments: small ones and the ends of int64_t.
GcdArgs == {FromInt(v) : v \in (0 - MaxGcdArg)..MaxGcdArg} \cup {INT64_MIN, INT64_MAX}

StringCalls(op) ==
    {[op |-> op, inputNull |-> FALSE, input |-> s, outputNull |-> FALSE,
      output |-> OutInit, output_size |-> n] : s \in Strings, n \in 0..OutCap}
    \cup
    {[op |-> op, inputNull |-> i, input |-> IF i THEN <<>> ELSE <<97, 0>>,
      outputNull |-> o, output |-> IF o THEN <<>> ELSE OutInit, output_size |-> n] :
        i \in BOOLEAN, o \in BOOLEAN, n \in {0, OutCap}}

ArrayCalls(op) ==
    {[op |-> op, arrNull |-> FALSE, arr |-> arr, len |-> Len(arr)] : arr \in Arrays}
    \cup {[op |-> op, arrNull |-> TRUE, arr |-> <<>>, len |-> n] : n \in 0..MaxArrLen}

FindMaxCalls ==
    {[op |-> "find_max", arrNull |-> c.arrNull, arr |-> c.arr, len |-> c.len,
      maxNull |-> m, max_value |-> 7] : c \in ArrayCalls("find_max"), m \in BOOLEAN}

LibraryACalls ==
    {[op |-> "add_numbers", a |-> a, b |-> b] : a \in SmallInts, b \in SmallInts}
    \cup {[op |-> "multiply_numbers", a |-> a, b |-> b] : a \in SmallInts, b \in SmallInts}
    \cup {[op |-> "factorial", n |-> n] : n \in 0..MaxFactN}
    \cup StringCalls("reverse_string")
    \cup StringCalls("uppercase_string")
    \cup {[op |-> "string_length", strNull |-> FALSE, str |-> s] : s \in Strings}
    \cup {[op |-> "string_length", strNull |-> TRUE, str |-> <<>>]}
    \cup ArrayCalls("sum_array")
    \cup FindMaxCalls
    \cup {[op |-> "get_last_error"]}

LibraryBCalls ==
    {[op |-> "fast_factorial", n |-> n] : n \in -2..MaxFactN}
    \cup {[op |-> "fast_gcd", a64 |-> a, b64 |-> b] : a \in GcdArgs, b \in GcdArgs}
    \cup ArrayCalls("fast_array_sum")
    \cup ArrayCalls("fast_array_max")
    \cup UNION {{[op |-> "fast_array_sort", arrNull |-> FALSE, arr |-> arr, len |-> n] :
                    n \in 0..Len(arr)} : arr \in Arrays}
    \cup {[op |-> "fast_array_sort", arrNull |-> TRUE, arr |-> <<>>, len |-> n] :
            n \in 0..MaxArrLen}
    \cup {[op |-> "fast_string_reverse", strNull |-> FALSE, str |-> s, len |-> n] :
            s \in Strings, n \in 0..(MaxStrLen + 1)}
    \cup {[op |-> "fast_string_reverse", strNull |-> TRUE, str |-> <<>>, len |-> 2]}
    \cup {[op |-> "fast_memory_compare", aNull |-> FALSE, aMem |-> p[1],
           bNull |-> FALSE, bMem |-> p[2], len |-> Len(p[1])] : p \in SpanPairs}
    \cup {[op |-> "fast_memory_compare", aNull |-> x, aMem |-> <<97>>, bNull |-> y,
           bMem |-> <<98>>, len |-> 1] : x \in BOOLEAN, y \in BOOLEAN}

\* The calls that may follow the first one in a sequence: each Library A
\* function, succeeding and failing.
FollowUps ==
    {c \in LibraryACalls :
        \/ c.op \in {"add_numbers", "multiply_numbers"} /\ c.a = 1 /\ c.b = 4
        \/ c.op = "factorial" /\ c.n \in {5, FactorialLimit + 1}
        \/ c.op \in {"reverse_string", "uppercase_string"}
             /\ (c.inputNull \/ c.outputNull \/ c.input = <<97, 0>>)
        \/ c.op = "string_length" /\ (c.strNull \/ strlen(c.str) = 1)
        \/ c.op = "sum_array" /\ c.len \in {0, 1}
        \/ c.op = "find_max" /\ c.len \in {0, 1}
        \/ c.op = "get_last_error"}

NoResult == [ret |-> 0]

(***************************************************************************)
(* The sequential caller: one call at a time.                              *)
(***************************************************************************)
Init ==
    /\ last_error = [i \in 1..ErrBufSize |-> 0]
    /\ pc = "call"
    /\ req \in LibraryACalls \cup LibraryBCalls
    /\ res = NoResult
    /\ ncalls = 1
    /\ lastFailure = <<>>
    /\ rpc = [c \in {1, 2} |-> "idle"]
    /\ rmsg = [c \in {1, 2} |-> <<>>]
    /\ ri = [c \in {1, 2} |-> 0]
    /\ overlapped = FALSE
    /\ observed = [read |-> FALSE, text |-> <<>>]

\* A Library A call returns r: the slot is what the call left, and the history
\* keeps the message it passed to set_error, if any.
ReturnA(r) ==
    /\ pc' = "ret"
    /\ res' = [f \in DOMAIN r \ {"err"} |-> r[f]]
    /\ last_error' = r.err
    /\ lastFailure' = IF r.msg # <<>> THEN r.msg ELSE lastFailure
    /\ UNCHANGED <<req, ncalls>>
    /\ UNCHANGED raceVars

\* A Library B call returns r: no shared state.
ReturnB(r) ==
    /\ pc' = "ret"
    /\ res' = r
    /\ UNCHANGED <<last_error, lastFailure, req, ncalls>>
    /\ UNCHANGED raceVars

Calling(op) == pc = "call" /\ req.op = op

AddNumbers == Calling("add_numbers") /\ ReturnA(add_numbers(last_error, req.a, req.b))

MultiplyNumbers ==
    Calling("multiply_numbers") /\ ReturnA(multiply_numbers(last_error, req.a, req.b))

Factorial == Calling("factorial") /\ ReturnA(factorial(last_error, req.n))

ReverseString ==
    /\ Calling("reverse_string")
    /\ ReturnA(reverse_string(last_error, req.inputNull, req.input,
                              req.outputNull, req.output, req.output_size))

UppercaseString ==
    /\ Calling("uppercase_string")
    /\ ReturnA(uppercase_string(last_error, req.inputNull, req.input,
                                req.outputNull, req.output, req.output_size))

StringLength ==
    Calling("string_length") /\ ReturnA(string_length(last_error, req.strNull, req.str))

SumArray ==
    Calling("sum_array") /\ ReturnA(sum_array(last_error, req.arrNull, req.arr, req.len))

FindMax ==
    /\ Calling("find_max")
    /\ ReturnA(find_max(last_error, req.arrNull, req.arr, req.len,
                        req.maxNull, req.max_value))

GetLastError == Calling("get_last_error") /\ ReturnA(get_last_error(last_error))

FastFactorial == Calling("fast_factorial") /\ ReturnB(fast_factorial(req.n))

FastGcd ==
    /\ Calling("fast_gcd")
    /\ \E onOverflow \in OverflowOutcomes : ReturnB(fast_gcd(req.a64, req.b64, onOverflow))

FastArraySum ==
    Calling("fast_array_sum") /\ ReturnB(fast_array_sum(req.arrNull, req.arr, req.len))

FastArrayMax ==
    Calling("fast_array_max") /\ ReturnB(fast_array_max(req.arrNull, req.arr, req.len))

FastArraySort ==
    Calling("fast_array_sort") /\ ReturnB(fast_array_sort(req.arrNull, req.arr, req.len))

FastStringReverse ==
    /\ Calling("fast_string_reverse")
    /\ ReturnB(fast_string_reverse(req.strNull, req.str, req.len))

FastMemoryCompare ==
    /\ Calling("fast_memory_compare")
    /\ \E how \in MemcmpResults :
          ReturnB(fast_memory_compare(req.aNull, req.aMem, req.bNull, req.bMem, req.len, how))

\* The caller goes on to its next call.
NextCall ==
    /\ pc = "ret"
    /\ ncalls < MaxCalls
    /\ req' \in FollowUps
    /\ pc' = "call"
    /\ ncalls' = ncalls + 1
    /\ UNCHANGED <<last_error, res, lastFailure>>
    /\ UNCHANGED raceVars

Next ==
    \/ AddNumbers
    \/ MultiplyNumbers
    \/ Factorial
    \/ ReverseString
    \/ UppercaseString
    \/ StringLength
    \/ SumArray
    \/ FindMax
    \/ GetLastError
    \/ FastFactorial
    \/ FastGcd
    \/ FastArraySum
    \/ FastArrayMax
    \/ FastArraySort
    \/ FastStringReverse
    \/ FastMemoryCompare
    \/ NextCall

Spec == Init /\ [][Next]_vars

(***************************************************************************)
(* Two callers without synchronisation.  Each makes one failing Library A  *)
(* call; the set_error calls run concurrently, strncpy storing one byte    *)
(* per step while it copies the message and zero-filling the rest of its n *)
(* bytes in one step.  A third party calls get_last_error afterwards.      *)
(***************************************************************************)
Callers == {1, 2}

\* The failing calls the racing callers choose from.
RaceCalls ==
    {c \in LibraryACalls : c.op \in {"sum_array", "find_max"} /\ c.arrNull /\ c.len = 0}

\* The message a racing call passes to set_error.
RaceMessage(c) ==
    IF c.op = "sum_array"
    THEN sum_array(last_error, c.arrNull, c.arr, c.len).msg
    ELSE find_max(last_error, c.arrNull, c.arr, c.len, c.maxNull, c.max_value).msg

\* strncpy, one byte: dest[i] = src[i], for i below the length of src.
strncpy_byte(dest, src, i) == [dest EXCEPT ![i + 1] = src[i + 1]]

\* A slip: a copy that stops at the end of the message, writing no terminator.
strncpy_no_fill(dest, i, n) == dest

\* strncpy, once src is exhausted at index i: terminators up to index n - 1.
strncpy_fill(dest, i, n) ==
    [k \in 1..Len(dest) |-> IF k > i /\ k <= n THEN 0 ELSE dest[k]]

InSetError(c) == rpc[c] \in {"strncpy", "terminate"}

InitRace ==
    /\ last_error = [i \in 1..ErrBufSize |-> 0]
    /\ pc = "race"
    /\ req = [op |-> "none"]
    /\ res = NoResult
    /\ ncalls = 0
    /\ lastFailure = <<>>
    /\ rpc = [c \in Callers |-> "idle"]
    /\ rmsg = [c \in Callers |-> <<>>]
    /\ ri = [c \in Callers |-> 0]
    /\ overlapped = FALSE
    /\ observed = [read |-> FALSE, text |-> <<>>]

\* Caller c fails a call and enters set_error(message).
RaceBegin(c) ==
    /\ rpc[c] = "idle"
    /\ \E call \in RaceCalls :
          /\ RaceMessage(call) # <<>>
          /\ rmsg' = [rmsg EXCEPT ![c] = RaceMessage(call)]
    /\ rpc' = [rpc EXCEPT ![c] = "strncpy"]
    /\ ri' = [ri EXCEPT ![c] = 0]
    /\ overlapped' = (overlapped \/ \E d \in Callers \ {c} : InSetError(d))
    /\ UNCHANGED <<last_error, observed>>
    /\ UNCHANGED seqVars

\* strncpy(last_error, message, sizeof(last_error) - 1): the next byte.
RaceCopy(c) ==
    /\ rpc[c] = "strncpy"
    /\ ri[c] < ErrBufSize - 1
    /\ ri[c] < Len(rmsg[c])
    /\ last_error' = strncpy_byte(last_error, rmsg[c], ri[c])
    /\ ri' = [ri EXCEPT ![c] = ri[c] + 1]
    /\ UNCHANGED <<rpc, rmsg, overlapped, observed>>
    /\ UNCHANGED seqVars

\* strncpy: the message is exhausted (or n reached); fill and return.
RaceFill(c) ==
    /\ rpc[c] = "strncpy"
    /\ ~(ri[c] < ErrBufSize - 1 /\ ri[c] < Len(rmsg[c]))
    /\ last_error' = strncpy_fill(last_error, ri[c], ErrBufSize - 1)
    /\ rpc' = [rpc EXCEPT ![c] = "terminate"]
    /\ UNCHANGED <<rmsg, ri, overlapped, observed>>
    /\ UNCHANGED seqVars

\* last_error[sizeof(last_error) - 1] = '\0'; and set_error returns.
RaceTerminate(c) ==
    /\ rpc[c] = "terminate"
    /\ last_error' = [last_error EXCEPT ![ErrBufSize] = 0]
    /\ rpc' = [rpc EXCEPT ![c] = "done"]
    /\ UNCHANGED <<rmsg, ri, overlapped, observed>>
    /\ UNCHANGED seqVars

\* After both calls have returned, get_last_error is called and its text read.
RaceRead ==
    /\ \A c \in Callers : rpc[c] = "done"
    /\ ~observed.read
    /\ observed' = [read |-> TRUE, text |-> get_last_error(last_error).ret]
    /\ UNCHANGED <<last_error, rpc, rmsg, ri, overlapped>>
    /\ UNCHANGED seqVars

NextRace ==
    \/ \E c \in Callers : RaceBegin(c)
    \/ \E c \in Callers : RaceCopy(c)
    \/ \E c \in Callers : RaceFill(c)
    \/ \E c \in Callers : RaceTerminate(c)
    \/ RaceRead

SpecRace == InitRace /\ [][NextRace]_vars

(***************************************************************************)
(* Properties.                                                             *)
(***************************************************************************)
Returned(op) == pc = "ret" /\ req.op = op

LibraryAOps ==
    {"add_numbers", "multiply_numbers", "factorial", "reverse_string",
     "uppercase_string", "string_length", "sum_array", "find_max", "get_last_error"}

\* The calls that fail, by their arguments.
FailingCall(c) ==
    \/ c.op = "factorial" /\ c.n > 20
    \/ c.op \in {"reverse_string", "uppercase_string"}
         /\ (c.inputNull \/ c.outputNull \/ c.output_size < strlen(c.input) + 1)
    \/ c.op = "string_length" /\ c.strNull
    \/ c.op = "sum_array" /\ c.arrNull
    \/ c.op = "find_max" /\ (c.arrNull \/ c.maxNull \/ c.len = 0)

\* C1: after any sequence of Library A calls, the text get_last_error returns
\* is the message of the most recent failing call, and empty if none failed:
\* a call records a message exactly when it fails, and the slot always reads
\* as the message recorded last.
C1_LastErrorIsLastFailure ==
    /\ CStr(last_error) = lastFailure
    /\ (pc = "ret" /\ req.op \in LibraryAOps) =>
          /\ FailingCall(req) <=> res.msg # <<>>
          /\ FailingCall(req) => lastFailure = res.msg
    /\ Returned("get_last_error") => res.ret = lastFailure

\* C1 witness: a third call, get_last_error, reads the message of a failing
\* sum_array made after another call.
C1_Witness ==
    /\ Returned("get_last_error")
    /\ ncalls >= 3
    /\ res.ret = MsgSumNull

Reversed(s) == [i \in 1..Len(s) |-> s[Len(s) + 1 - i]]
Uppercased(s) == [i \in 1..Len(s) |-> IF s[i] \in 97..122 THEN s[i] - 32 ELSE s[i]]

StringContract(transformed) ==
    IF req.inputNull \/ req.outputNull \/ req.output_size < strlen(req.input) + 1
    THEN /\ res.ret = -1
         /\ CStr(last_error) # <<>>
         /\ res.out.written = {}
         /\ res.out.mem = req.output
    ELSE LET len == strlen(req.input)
         IN  /\ res.ret = 0
             /\ res.out.written = 0..len
             /\ SubSeq(res.out.mem, 1, len) = transformed
             /\ res.out.mem[len + 1] = 0
             /\ \A i \in res.out.written : i < req.output_size
             /\ \A i \in (len + 2)..Len(req.output) : res.out.mem[i] = req.output[i]

\* C2: reverse_string and uppercase_string return -1, set a non-empty error
\* message and write nothing when a pointer is null or output_size is below
\* strlen(input) + 1; otherwise they return 0 and write exactly the
\* strlen(input) + 1 bytes of the transformed text and its terminator, none at
\* an index >= output_size.
C2_StringContract ==
    /\ Returned("reverse_string") => StringContract(Reversed(CStr(req.input)))
    /\ Returned("uppercase_string") => StringContract(Uppercased(CStr(req.input)))

\* C2 witness: a three-byte string reversed into a buffer that fits exactly.
C2_Witness ==
    /\ Returned("reverse_string")
    /\ req.input = <<97, 122, 66, 0>>
    /\ req.output_size = 4
    /\ res.ret = 0
    /\ SubSeq(res.out.mem, 1, 4) = <<66, 122, 97, 0>>

Occurrences(a, len, v) == Cardinality({i \in 1..len : a[i] = v})

\* C3: fast_array_sort leaves the first len elements in non-decreasing order,
\* a permutation of what they were, and the rest untouched; sorting again
\* changes nothing; arrays of length <= 1 are not modified; and the recursion
\* ends, after at most 2*len - 1 invocations of quicksort.
C3_SortContract ==
    (Returned("fast_array_sort") /\ ~req.arrNull) =>
        /\ \A i \in 1..(req.len - 1) : res.arr[i] <= res.arr[i + 1]
        /\ \A v \in ArrVals :
              Occurrences(res.arr, req.len, v) = Occurrences(req.arr, req.len, v)
        /\ Len(res.arr) = Len(req.arr)
        /\ \A i \in (req.len + 1)..Len(req.arr) : res.arr[i] = req.arr[i]
        /\ fast_array_sort(FALSE, res.arr, req.len).arr = res.arr
        /\ req.len <= 1 => res.arr = req.arr /\ res.calls = 0
        /\ req.len >= 2 => res.calls <= 2 * req.len - 1

\* C3 witness: a reverse-sorted array of three elements has been sorted.
C3_Witness ==
    /\ Returned("fast_array_sort")
    /\ req.arr = <<2, 0, -1>>
    /\ req.len = 3
    /\ res.arr = <<-1, 0, 2>>

\* Natural numbers of any size: limbs, least significant first, no leading zero.
RECURSIVE BigTimes(_, _, _)
BigTimes(x, k, carry) ==
    IF x = <<>>
    THEN IF carry = 0 THEN <<>>
         ELSE <<carry % LimbBase>> \o BigTimes(<<>>, k, carry \div LimbBase)
    ELSE LET p == Head(x) * k + carry
         IN  <<p % LimbBase>> \o BigTimes(Tail(x), k, p \div LimbBase)

\* n! over the naturals.
RECURSIVE BigFactorial(_)
BigFactorial(n) == IF n = 0 THEN <<1>> ELSE BigTimes(BigFactorial(n - 1), n, 0)

\* The natural number a 64-bit pattern stands for, read as unsigned.
RECURSIVE Trimmed(_)
Trimmed(x) ==
    IF x # <<>> /\ x[Len(x)] = 0 THEN Trimmed(SubSeq(x, 1, Len(x) - 1)) ELSE x

\* C4: for 0 <= n <= 20, factorial and fast_factorial return n! exactly (the
\* signed result is not negative); for n > 20 factorial returns 0 and records an
\* error message and fast_factorial returns -1; for n < 0 fast_factorial
\* returns -1.
C4_Factorial ==
    /\ Returned("factorial") =>
          IF req.n <= 20
          THEN Trimmed(res.ret) = BigFactorial(req.n) /\ res.msg = <<>>
          ELSE res.ret = Zero64 /\ res.msg # <<>> /\ CStr(last_error) = res.msg
    /\ Returned("fast_factorial") =>
          IF 0 <= req.n /\ req.n <= 20
          THEN Trimmed(res.ret) = BigFactorial(req.n) /\ ~IsNeg64(res.ret)
          ELSE res.ret = MinusOne64

\* C4 witness: fast_factorial(20) has returned 2432902008176640000.
C4_Witness ==
    /\ Returned("fast_factorial")
    /\ req.n = 20
    /\ res.ret = <<0, 33460, 26492, 8643>>

RECURSIVE SeqSum(_)
SeqSum(s) == IF s = <<>> THEN 0 ELSE Head(s) + SeqSum(Tail(s))

\* C5 as stated: sum_array returns 0 for a null or empty array, fast_array_sum
\* a negative sentinel for a null or empty array; otherwise each returns the
\* sum of the first length elements.
C5_AsStated ==
    /\ Returned("sum_array") =>
          IF req.arrNull \/ req.len = 0
          THEN res.ret = 0
          ELSE res.ret = SeqSum(SubSeq(req.arr, 1, req.len))
    /\ Returned("fast_array_sum") =>
          IF req.arrNull \/ req.len = 0
          THEN res.ret < 0
          ELSE res.ret = SeqSum(SubSeq(req.arr, 1, req.len))

\* C5 amended: sum_array returns 0 for a null or empty array; fast_array_sum
\* returns the sentinel -1 for a null array only, and 0 for an empty non-null
\* array; for a non-null array each returns the sum of the first length
\* elements.
C5_SumContract ==
    /\ Returned("sum_array") =>
          /\ req.arrNull \/ req.len = 0 => res.ret = 0
          /\ ~req.arrNull => res.ret = SeqSum(SubSeq(req.arr, 1, req.len))
    /\ Returned("fast_array_sum") =>
          /\ req.arrNull => res.ret = -1
          /\ ~req.arrNull => res.ret = SeqSum(SubSeq(req.arr, 1, req.len))
          /\ ~req.arrNull /\ req.len = 0 => res.ret = 0

\* C5 witness: fast_array_sum of an empty, non-null array has returned 0.
C5_Witness ==
    /\ Returned("fast_array_sum")
    /\ ~req.arrNull
    /\ req.len = 0
    /\ res.ret = 0

IsMaximum(m, arr, len) ==
    /\ \E i \in 1..len : arr[i] = m
    /\ \A i \in 1..len : arr[i] <= m

\* C6: for a non-null array of length >= 1 (and a non-null out-parameter)
\* find_max returns 0 and stores the maximum, an element >= every element, and
\* fast_array_max returns that maximum; for a null array, a null out-parameter
\* or length 0, find_max returns -1, records an error message and stores
\* nothing, and fast_array_max returns -1 for a null array or length 0.
C6_MaxContract ==
    /\ Returned("find_max") =>
          IF req.arrNull \/ req.maxNull \/ req.len = 0
          THEN /\ res.ret = -1
               /\ res.msg # <<>>
               /\ CStr(last_error) = res.msg
               /\ ~res.written
               /\ res.max_value = req.max_value
          ELSE /\ res.ret = 0
               /\ res.written
               /\ IsMaximum(res.max_value, req.arr, req.len)
    /\ Returned("fast_array_max") =>
          IF req.arrNull \/ req.len = 0
          THEN res.ret = -1
          ELSE IsMaximum(res.ret, req.arr, req.len)

\* C6 witness: find_max has stored the maximum of an unsorted three-element
\* array with a negative element.
C6_Witness ==
    /\ Returned("find_max")
    /\ req.arr = <<-1, 2, 0>>
    /\ res.ret = 0
    /\ res.written
    /\ res.max_value = 2

\* C7: the value fast_memory_compare returns for a null pointer is never
\* returned as the ordering of two non-null spans.
C7_SentinelDistinct ==
    (Returned("fast_memory_compare") /\ ~req.aNull /\ ~req.bNull) =>
        res.ret # TASK_OPS_ERROR_NULL_POINTER

\* C8: reversing twice is the identity: reverse_string applied to the output
\* of a successful reverse_string yields the original string; two successive
\* fast_string_reverse calls restore the buffer, and neither touches a byte at
\* an index >= len.
C8_ReverseTwice ==
    /\ (Returned("reverse_string") /\ res.ret = 0) =>
          LET again == reverse_string(last_error, FALSE, res.out.mem, FALSE,
                                      OutInit, req.output_size)
          IN  /\ again.ret = 0
              /\ CStr(again.out.mem) = CStr(req.input)
    /\ (Returned("fast_string_reverse") /\ ~req.strNull) =>
          LET again == fast_string_reverse(FALSE, res.out.mem, req.len)
          IN  /\ again.out.mem = req.str
              /\ \A i \in res.out.written \cup again.out.written : i < req.len
              /\ \A i \in (req.len + 1)..Len(req.str) : res.out.mem[i] = req.str[i]

\* C8 witness: fast_string_reverse has reversed a four-byte buffer with an
\* embedded terminator.
C8_Witness ==
    /\ Returned("fast_string_reverse")
    /\ req.str = <<97, 0, 66, 0>>
    /\ req.len = 4
    /\ res.out.mem = <<0, 66, 0, 97>>

\* The greatest common divisor of two unsigned 64-bit numbers.
RECURSIVE UGcd(_, _)
UGcd(x, y) == IF y = Zero64 THEN x ELSE UGcd(y, UMod(x, y))

\* C9: for all 64-bit a and b, INT64_MIN included, fast_gcd returns, and what
\* it returns is non-negative and is the greatest common divisor of |a| and
\* |b|.
C9_GcdContract ==
    Returned("fast_gcd") =>
        /\ res.returned
        /\ ~IsNeg64(res.ret)
        /\ res.ret = UGcd(Magnitude(req.a64), Magnitude(req.b64))

\* C10: when the callers' set_error calls did not overlap, the text read
\* afterwards is one caller's message; a text that is neither caller's message
\* is read only after overlapping calls (C10_TornRead is such a read).
C10_SerialNotTorn ==
    (observed.read /\ ~overlapped) => observed.text \in {rmsg[c] : c \in Callers}

\* C10 witness: get_last_error has read a text that is neither caller's
\* message.
C10_TornRead ==
    /\ observed.read
    /\ observed.text \notin {rmsg[c] : c \in Callers}

=============================================================================
